---- MODULE Spec2Model ----
(***************************************************************************)
(* A model of app.py, the Streamlit A/B testing script.                    *)
(*                                                                         *)
(* The script is run top to bottom once per session interaction.  All     *)
(* sessions of one server process share the process-wide numpy generator   *)
(* (np.random.seed / np.random.beta / np.random.binomial) and the cached   *)
(* data set.  A script run is split into steps at its calls on the shared  *)
(* generator, which are the points where another session's run can come    *)
(* in between.                                                             *)
(*                                                                         *)
(* Reals are fixed point: rates in basis points (1e-4), z in 1e-3,         *)
(* p-values in 1e-6, angles in 1e-4 radians.  Uniform variates are the     *)
(* generator outputs 0..RngMod-1, read as u / RngMod.                      *)
(***************************************************************************)
EXTENDS Integers, Sequences, FiniteSets, TLC

\* ------------------------------------------------------------- bounds
\* Largest group size of the data set (rows per group in the CSV).
MaxN == 2
\* Number of Monte Carlo draws per group; stands for n_sim = 100000.
NSim == 20
\* Size of the generator's state space; stands for the MT19937 state.
RngMod == 64
\* Largest "Users per group" entered in the simulate workflow.
MaxUsers == 2

\* The seed both workflows pass to np.random.seed.
SeedValue == 42

Sessions == {1, 2}

\* ------------------------------------------------------- arithmetic
Abs(x) == IF x < 0 THEN -x ELSE x

Sign(x) == IF x < 0 THEN -1 ELSE IF x > 0 THEN 1 ELSE 0

RECURSIVE SqrtSearch(_, _, _)
SqrtSearch(x, lo, hi) ==
    IF lo >= hi THEN lo
    ELSE LET mid == (lo + hi + 1) \div 2
         IN IF mid * mid <= x THEN SqrtSearch(x, mid, hi)
            ELSE SqrtSearch(x, lo, mid - 1)

\* floor(sqrt(x)) for 0 <= x < 2^31
ISqrt(x) == SqrtSearch(x, 0, 46340)

RECURSIVE SumSeq(_)
SumSeq(s) == IF s = <<>> THEN 0 ELSE Head(s) + SumSeq(Tail(s))

Sorted(s) == SortSeq(s, LAMBDA x, y : x < y)

\* ------------------------------------------- the process-wide generator
\* Faulty variant of Reseed: the seed call left out.
ReseedSkipped(s) == s

\* np.random.seed(42): the generator state becomes a function of the seed
\* alone, whatever it was.
Reseed(s) == SeedValue % RngMod

\* One step of the generator; its output is the new state.
NextState(s) == (29 * s + 17) % RngMod

\* k uniform variates drawn from state s: the values and the state after.
RECURSIVE Uniforms(_, _)
Uniforms(s, k) ==
    IF k = 0 THEN [vals |-> <<>>, state |-> s]
    ELSE LET s1 == NextState(s)
             r  == Uniforms(s1, k - 1)
         IN [vals |-> <<s1>> \o r.vals, state |-> r.state]

\* One Beta(a, b) variate for integers a, b >= 1: the a-th smallest of
\* a + b - 1 uniform variates.
BetaVariate(s, a, b) ==
    LET u == Uniforms(s, a + b - 1)
    IN [val |-> Sorted(u.vals)[a], state |-> u.state]

\* np.random.beta(a, b, n): n variates, drawn one after the other.
RECURSIVE RandomBeta(_, _, _, _)
RandomBeta(s, a, b, n) ==
    IF n = 0 THEN [vals |-> <<>>, state |-> s]
    ELSE LET v == BetaVariate(s, a, b)
             r == RandomBeta(v.state, a, b, n - 1)
         IN [vals |-> <<v.val>> \o r.vals, state |-> r.state]

\* np.random.binomial(1, p, n) with p in basis points: n Bernoulli trials,
\* one uniform variate each, success when u / RngMod < p.
RECURSIVE RandomBinomial(_, _, _)
RandomBinomial(s, p, n) ==
    IF n = 0 THEN [vals |-> <<>>, state |-> s]
    ELSE LET s1 == NextState(s)
             x  == IF s1 * 10000 < p * RngMod THEN 1 ELSE 0
             r  == RandomBinomial(s1, p, n - 1)
         IN [vals |-> <<x>> \o r.vals, state |-> r.state]

\* ------------------------------------------------- floating point values
\* A float is a number or NaN.  Comparisons with NaN are false.
Num(v) == [nan |-> FALSE, v |-> v]

NaN == [nan |-> TRUE, v |-> 0]

FLess(x, c) == ~x.nan /\ x.v < c

FSub(x, y) == IF x.nan \/ y.nan THEN NaN ELSE Num(x.v - y.v)

FMulInt(x, k) == IF x.nan THEN NaN ELSE Num(x.v * k)

\* ----------------------------------------------------- the z-test
\* norm.sf at z = 0.00, 0.05, ..., 5.05, in 1e-6.
NormSfTable ==
    << 500000, 480061, 460172, 440382, 420740, 401294, 382089, 363169,
       344578, 326355, 308538, 291160, 274253, 257846, 241964, 226627,
       211855, 197663, 184060, 171056, 158655, 146859, 135666, 125072,
       115070, 105650, 96800, 88508, 80757, 73529, 66807, 60571,
       54799, 49471, 44565, 40059, 35930, 32157, 28717, 25588,
       22750, 20182, 17864, 15778, 13903, 12224, 10724, 9387,
       8198, 7143, 6210, 5386, 4661, 4025, 3467, 2980,
       2555, 2186, 1866, 1589, 1350, 1144, 968, 816,
       687, 577, 483, 404, 337, 280, 233, 193,
       159, 131, 108, 88, 72, 59, 48, 39,
       32, 26, 21, 17, 13, 11, 9, 7,
       5, 4, 3, 3, 2, 2, 1, 1,
       1, 1, 0, 0, 0, 0 >>

\* norm.sf(z) for z in 1e-3, linear between the table's points.
NormSf(z) ==
    LET a    == Abs(z)
        i    == a \div 50
        frac == a % 50
        up   == IF i >= 100 THEN 0
                ELSE NormSfTable[i + 1]
                     - ((NormSfTable[i + 1] - NormSfTable[i + 2]) * frac) \div 50
    IN IF z >= 0 THEN up ELSE 1000000 - up

\* The z statistic of proportions_ztest(count, nobs) with the pooled
\* variance: prop = count / nobs, diff = prop[1] - prop[2],
\* p_pooled = sum(count) / sum(nobs),
\* var = p_pooled * (1 - p_pooled) * (1/nobs[1] + 1/nobs[2]),
\* z = diff / sqrt(var).  An empty group gives prop = 0/0 = NaN; a zero
\* variance comes with diff = 0 and gives 0/0 = NaN.
ZStat(count, nobs) ==
    IF nobs[1] = 0 \/ nobs[2] = 0 THEN NaN
    ELSE LET num  == count[1] * nobs[2] - count[2] * nobs[1]
             S    == count[1] + count[2]
             N    == nobs[1] + nobs[2]
             vnum == S * (N - S)
         IN IF vnum = 0 THEN NaN
            ELSE Num(Sign(num)
                     * ISqrt((1000000 * num * num * N)
                             \div (nobs[1] * nobs[2] * vnum)))

\* proportions_ztest(count, nobs, alternative='larger'): z and
\* p = norm.sf(z).
ProportionsZTest(count, nobs) ==
    LET z == ZStat(count, nobs)
    IN [z_stat  |-> z,
        p_value |-> IF z.nan THEN NaN ELSE Num(NormSf(z.v))]

\* "p_value < 0.05"
Significant(p_value) == FLess(p_value, 50000)

\* ------------------------------------------------ Bayesian summaries
\* (treatment_samples > control_samples).mean(), in units of 1 / n_sim.
ProbTreatmentBetter(treatment, control) ==
    Cardinality({i \in 1..Len(treatment) : treatment[i] > control[i]})

\* treatment_samples - control_samples
LiftSamples(treatment, control) ==
    [i \in 1..Len(treatment) |-> treatment[i] - control[i]]

\* np.percentile(x, q) for q in tenths of a percent, linear between the
\* two nearest order statistics; the value in 1e-3.
Percentile(x, q) ==
    LET srt  == Sorted(x)
        pos  == q * (Len(x) - 1)
        lo   == pos \div 1000
        frac == pos % 1000
        hi   == IF lo + 1 < Len(x) THEN lo + 1 ELSE lo
    IN srt[lo + 1] * 1000 + (srt[hi + 1] - srt[lo + 1]) * frac

\* Faulty variant of StrongEvidence: ">=" for ">".
StrongEvidenceAtLeast(prob, n) == prob * 100 >= 95 * n

\* "prob_treatment_better > 0.95"
StrongEvidence(prob, n) == prob * 100 > 95 * n

\* The final recommendation of the analyze workflow.
Recommendation(p_value, prob, n) ==
    IF Significant(p_value) /\ StrongEvidence(prob, n)
    THEN "launch" ELSE "continue"

\* Business impact: revenue_lift, monthly_impact, annual_impact.
BusinessImpact(control_revenue, treatment_revenue, monthly_users) ==
    LET revenue_lift   == FSub(treatment_revenue, control_revenue)
        monthly_impact == FMulInt(revenue_lift, monthly_users)
    IN [revenue_lift   |-> revenue_lift,
        monthly_impact |-> monthly_impact,
        annual_impact  |-> FMulInt(monthly_impact, 12)]

\* ------------------------------------------------------------ state
VARIABLES
    data,               \* the cached data set: both groups' aggregates
    rng,                \* state of the process-wide generator
    pc,                 \* per session: where its script run stands
    inp,                \* per session: the widget values of the run
    ztest,              \* per session: z_stat, p_value
    control_samples,    \* per session, analyze: Beta draws for control
    treatment_samples,  \* per session, analyze: Beta draws for treatment
    control_conv,       \* per session, simulate: generated control column
    treatment_conv,     \* per session, simulate: generated treatment column
    out,                \* per session: what the run computed at its end
    first_estimate,     \* history: the first completed analyze run's estimate
    run_rng,            \* history: the generator state session 1's run found
    calc,               \* sample size calculator: position, widgets, results
    sample_sizes,       \* sample size calculator: the sweep's list
    last_calc           \* sample size calculator: the previous completed run

calcVars == <<calc, sample_sizes, last_calc>>

histVars == <<first_estimate, run_rng>>

vars == <<data, rng, pc, inp, ztest, control_samples, treatment_samples,
          control_conv, treatment_conv, out, histVars, calcVars>>

\* Mean revenue per user of a non-empty group, in dollars.
RevValues == {2, 5}

\* One group of the CSV: rows, conversions, mean revenue.
Groups ==
    {[n |-> n, successes |-> s, revenue |-> Num(r)] :
        n \in 1..MaxN, s \in 0..MaxN, r \in RevValues}

GroupAggregates ==
    {g \in Groups : g.successes <= g.n}
    \cup {[n |-> 0, successes |-> 0, revenue |-> NaN]}

\* "Monthly Users": an integer input with no minimum; 100000 when untouched.
DefaultMonthlyUsers == 100000

MonthlyUsersValues == {-10000, 0, DefaultMonthlyUsers}

\* "Control conversion rate (%)" and "Expected lift (percentage points)",
\* in basis points.
ControlRateValues == {0, 5000}

LiftValues == {0, 1000}

NoInput == [mode |-> "none"]

NoTest == [z_stat |-> NaN, p_value |-> NaN, ran |-> FALSE]

NoOut == [kind |-> "none"]

Init ==
    /\ data \in [control : GroupAggregates, treatment : GroupAggregates]
    /\ rng \in {0, RngMod - 1}
    /\ pc = [s \in Sessions |-> "idle"]
    /\ inp = [s \in Sessions |-> NoInput]
    /\ ztest = [s \in Sessions |-> NoTest]
    /\ control_samples = [s \in Sessions |-> <<>>]
    /\ treatment_samples = [s \in Sessions |-> <<>>]
    /\ control_conv = [s \in Sessions |-> <<>>]
    /\ treatment_conv = [s \in Sessions |-> <<>>]
    /\ out = [s \in Sessions |-> NoOut]
    /\ first_estimate = NoOut
    /\ run_rng = rng
    /\ calc = [pc |-> "idle"]
    /\ sample_sizes = <<>>
    /\ last_calc = [pc |-> "none"]

\* ------------------------------------------------ the analyze workflow
\* Faulty variant of AnalyzeTest: control first, treatment second.
AnalyzeTestControlFirst(d) ==
    ProportionsZTest(<<d.control.successes, d.treatment.successes>>,
                     <<d.control.n, d.treatment.n>>)

\* The z-test of the analyze workflow: treatment first, control second.
AnalyzeTest(d) ==
    ProportionsZTest(<<d.treatment.successes, d.control.successes>>,
                     <<d.treatment.n, d.control.n>>)

\* The posterior draw for one group: Beta(successes + 1, failures + 1).
PosteriorDraw(s, g, n) ==
    RandomBeta(s, g.successes + 1, (g.n - g.successes) + 1, n)

\* Everything the run computes from the two sample arrays.
AnalyzeResult(d, test, control, treatment, monthly_users) ==
    LET prob   == ProbTreatmentBetter(treatment, control)
        lift   == LiftSamples(treatment, control)
        impact == BusinessImpact(d.control.revenue, d.treatment.revenue,
                                 monthly_users)
    IN [kind                  |-> "analyze",
        prob_treatment_better |-> prob,
        expected_lift         |-> SumSeq(lift),
        lift_ci               |-> <<Percentile(lift, 25), Percentile(lift, 975)>>,
        lift_samples          |-> lift,
        revenue_lift          |-> impact.revenue_lift,
        monthly_impact        |-> impact.monthly_impact,
        annual_impact         |-> impact.annual_impact,
        recommendation        |-> Recommendation(test.p_value, prob,
                                                 Len(treatment))]

\* The Bayesian estimate within a run's results.
BayesianPart(res) ==
    [kind                  |-> "estimate",
     prob_treatment_better |-> res.prob_treatment_better,
     expected_lift         |-> res.expected_lift,
     lift_ci               |-> res.lift_ci,
     lift_samples          |-> res.lift_samples]

\* Lines 40-165: the key metrics, the z-test, then np.random.seed(42).
AnalyzeStart(s, u) ==
    /\ pc[s] = "idle"
    /\ inp' = [inp EXCEPT ![s] = [mode |-> "analyze", monthly_users |-> u]]
    /\ ztest' = [ztest EXCEPT ![s] = AnalyzeTest(data) @@ [ran |-> TRUE]]
    /\ rng' = Reseed(rng)
    /\ pc' = [pc EXCEPT ![s] = "a_seeded"]
    /\ UNCHANGED <<data, control_samples, treatment_samples, control_conv,
                   treatment_conv, out>>
    /\ UNCHANGED calcVars

\* Line 168: control_samples = np.random.beta(...).
AnalyzeDrawControl(s) ==
    /\ pc[s] = "a_seeded"
    /\ LET r == PosteriorDraw(rng, data.control, NSim)
       IN /\ control_samples' = [control_samples EXCEPT ![s] = r.vals]
          /\ rng' = r.state
    /\ pc' = [pc EXCEPT ![s] = "a_control"]
    /\ UNCHANGED <<data, inp, ztest, treatment_samples, control_conv,
                   treatment_conv, out>>
    /\ UNCHANGED calcVars

\* Lines 169-280: treatment_samples = np.random.beta(...), the posterior
\* summaries, the business impact and the final recommendation.
AnalyzeFinish(s) ==
    /\ pc[s] = "a_control"
    /\ LET r   == PosteriorDraw(rng, data.treatment, NSim)
           res == AnalyzeResult(data, ztest[s], control_samples[s], r.vals,
                                inp[s].monthly_users)
       IN /\ treatment_samples' = [treatment_samples EXCEPT ![s] = r.vals]
          /\ rng' = r.state
          /\ out' = [out EXCEPT ![s] = res]
    /\ pc' = [pc EXCEPT ![s] = "done"]
    /\ UNCHANGED <<data, inp, ztest, control_samples, control_conv,
                   treatment_conv>>
    /\ UNCHANGED calcVars

\* ----------------------------------------------- the simulate workflow
\* Lines 287-299: the widgets are read, the button is pressed,
\* np.random.seed(42).
SimulateStart(s, n, c, l) ==
    /\ pc[s] = "idle"
    /\ inp' = [inp EXCEPT ![s] =
                  [mode |-> "simulate", n_users |-> n, control_rate |-> c,
                   treatment_rate |-> c + l]]
    /\ rng' = Reseed(rng)
    /\ pc' = [pc EXCEPT ![s] = "s_seeded"]
    /\ UNCHANGED <<data, ztest, control_samples, treatment_samples,
                   control_conv, treatment_conv, out>>
    /\ UNCHANGED calcVars

\* Line 302: control_conv = np.random.binomial(...).
SimulateDrawControl(s) ==
    /\ pc[s] = "s_seeded"
    /\ LET r == RandomBinomial(rng, inp[s].control_rate, inp[s].n_users)
       IN /\ control_conv' = [control_conv EXCEPT ![s] = r.vals]
          /\ rng' = r.state
    /\ pc' = [pc EXCEPT ![s] = "s_control"]
    /\ UNCHANGED <<data, inp, ztest, control_samples, treatment_samples,
                   treatment_conv, out>>
    /\ UNCHANGED calcVars

\* The z-test of the simulate workflow on the generated columns.
SimulateTest(control, treatment, n_users) ==
    ProportionsZTest(<<SumSeq(treatment), SumSeq(control)>>,
                     <<n_users, n_users>>)

\* Lines 303-325: treatment_conv = np.random.binomial(...), the z-test and
\* the verdict.
SimulateFinish(s) ==
    /\ pc[s] = "s_control"
    /\ LET r    == RandomBinomial(rng, inp[s].treatment_rate, inp[s].n_users)
           test == SimulateTest(control_conv[s], r.vals, inp[s].n_users)
       IN /\ treatment_conv' = [treatment_conv EXCEPT ![s] = r.vals]
          /\ rng' = r.state
          /\ ztest' = [ztest EXCEPT ![s] = test @@ [ran |-> TRUE]]
          /\ out' = [out EXCEPT ![s] =
                        [kind        |-> "simulate",
                         significant |-> Significant(test.p_value)]]
    /\ pc' = [pc EXCEPT ![s] = "done"]
    /\ UNCHANGED <<data, inp, control_samples, treatment_samples,
                   control_conv>>
    /\ UNCHANGED calcVars

\* A widget interaction starts the script again from the top.
Rerun(s) ==
    /\ pc[s] = "done"
    /\ pc' = [pc EXCEPT ![s] = "idle"]
    /\ inp' = [inp EXCEPT ![s] = NoInput]
    /\ ztest' = [ztest EXCEPT ![s] = NoTest]
    /\ control_samples' = [control_samples EXCEPT ![s] = <<>>]
    /\ treatment_samples' = [treatment_samples EXCEPT ![s] = <<>>]
    /\ control_conv' = [control_conv EXCEPT ![s] = <<>>]
    /\ treatment_conv' = [treatment_conv EXCEPT ![s] = <<>>]
    /\ out' = [out EXCEPT ![s] = NoOut]
    /\ UNCHANGED <<data, rng>>
    /\ UNCHANGED calcVars

\* The history of session 1's analyze runs: the generator state each run
\* found, and the first completed run's estimate with the state it found.
History ==
    /\ run_rng' = IF pc[1] = "idle" /\ pc'[1] = "a_seeded" THEN rng
                  ELSE run_rng
    /\ first_estimate' =
          IF pc[1] = "a_control" /\ pc'[1] = "done" /\ first_estimate = NoOut
          THEN [kind       |-> "first",
                estimate   |-> BayesianPart(out'[1]),
                rng_before |-> run_rng]
          ELSE first_estimate

\* One session: Streamlit runs a session's script runs one after the other.
Next ==
    \/ (\E u \in MonthlyUsersValues : AnalyzeStart(1, u)) /\ History
    \/ AnalyzeDrawControl(1) /\ History
    \/ AnalyzeFinish(1) /\ History
    \/ (\E n \in 0..MaxUsers, c \in ControlRateValues, l \in LiftValues :
           SimulateStart(1, n, c, l)) /\ History
    \/ SimulateDrawControl(1) /\ History
    \/ SimulateFinish(1) /\ History
    \/ Rerun(1) /\ History

Spec == Init /\ [][Next]_vars

\* Two sessions of one server process, their runs interleaved at the calls
\* on the shared generator.
NextShared ==
    \E s \in Sessions :
        \/ AnalyzeStart(s, DefaultMonthlyUsers) /\ UNCHANGED histVars
        \/ AnalyzeDrawControl(s) /\ UNCHANGED histVars
        \/ AnalyzeFinish(s) /\ UNCHANGED histVars
        \/ (\E c \in ControlRateValues, l \in LiftValues :
               SimulateStart(s, MaxUsers, c, l)) /\ UNCHANGED histVars
        \/ SimulateDrawControl(s) /\ UNCHANGED histVars
        \/ SimulateFinish(s) /\ UNCHANGED histVars
        \/ Rerun(s) /\ UNCHANGED histVars

\* The shared-generator runs start from the data sets with full groups.
InitShared ==
    /\ Init
    /\ data.control.n = MaxN
    /\ data.treatment.n = MaxN
    /\ data.control.revenue = data.treatment.revenue

SpecShared == InitShared /\ [][NextShared]_vars

\* ------------------------------------------- the sample size calculator
\* sin(t) for t in 1e-4 radians, 0 <= t <= pi/2, in 1e-4: the Taylor
\* series to the ninth power.
Sin(t) ==
    LET t3 == (((t * t) \div 10000) * t) \div 60000
        t5 == (((t3 * t) \div 10000) * t) \div 200000
        t7 == (((t5 * t) \div 10000) * t) \div 420000
        t9 == (((t7 * t) \div 10000) * t) \div 720000
    IN t - t3 + t5 - t7 + t9

RECURSIVE ArcsinSearch(_, _, _)
ArcsinSearch(x, lo, hi) ==
    IF lo >= hi THEN lo
    ELSE LET mid == (lo + hi + 1) \div 2
         IN IF Sin(mid) <= x THEN ArcsinSearch(x, mid, hi)
            ELSE ArcsinSearch(x, lo, mid - 1)

\* np.arcsin(np.sqrt(p)) for p in basis points, in 1e-4 radians, for the
\* rates the sliders can give: up to 50% + 10pp.
ArcsinSqrtValues ==
    [p \in 0..6000 |-> ArcsinSearch(ISqrt(p * 10000), 0, 15708)]

ArcsinSqrt(p) == ArcsinSqrtValues[p]

\* def cohens_h(p1, p2), in 1e-4.
cohens_h(p1, p2) == 2 * (ArcsinSqrt(p1) - ArcsinSqrt(p2))

\* The noncentrality x (in 1e-3) at which a two-sided z-test of level alpha
\* has the given power: norm.sf(crit - x) + norm.cdf(-crit - x) = power with
\* crit = norm.isf(alpha / 2); alpha and power in percent.
SolverRoot(alpha, power) ==
    CASE alpha = 1  /\ power = 70 -> 3100
      [] alpha = 1  /\ power = 80 -> 3417
      [] alpha = 1  /\ power = 90 -> 3857
      [] alpha = 1  /\ power = 95 -> 4221
      [] alpha = 5  /\ power = 70 -> 2484
      [] alpha = 5  /\ power = 80 -> 2802
      [] alpha = 5  /\ power = 90 -> 3242
      [] alpha = 5  /\ power = 95 -> 3605
      [] alpha = 10 /\ power = 70 -> 2169
      [] alpha = 10 /\ power = 80 -> 2486
      [] alpha = 10 /\ power = 90 -> 2926
      [] alpha = 10 /\ power = 95 -> 3290

\* zt_ind_solve_power(effect_size, alpha, power, ratio=1.0,
\* alternative='two-sided') solved for nobs1: the power depends on
\* effect_size * sqrt(nobs1 / 2), so nobs1 = 2 * (x / effect_size)^2, here
\* rounded down to a whole number.  A zero effect size has no finite
\* solution.
zt_ind_solve_power(effect_size, alpha, power) ==
    IF effect_size = 0 THEN NaN
    ELSE LET q  == 100 * SolverRoot(alpha, power) * SolverRoot(alpha, power)
             e2 == effect_size * effect_size
         IN Num(2 * (q \div e2) + (2 * (q % e2)) \div e2)

\* Lines 348-356 and 378-379: the required sample size per group for one
\* minimum detectable effect.
RequiredN(baseline_rate, mde, alpha, power) ==
    zt_ind_solve_power(Abs(cohens_h(baseline_rate, baseline_rate + mde)),
                       alpha, power)

\* np.arange(start, stop, step)
RECURSIVE Arange(_, _, _)
Arange(start, stop, step) ==
    IF start >= stop THEN <<>>
    ELSE <<start>> \o Arange(start + step, stop, step)

\* mde_range = np.arange(0.005, 0.05, 0.005), in basis points.
mde_range == Arange(50, 500, 50)

\* "Baseline conversion rate (%)": 0.0 to 50.0, in basis points.
BaselineValues == {0, 1200, 5000}

\* Faulty variant of MdeValues: the slider starting at 0.0.
MdeValuesFromZero == {0, 50, 150, 1000}

\* "Minimum Detectable Effect (pp)": 0.5 to 10.0, in basis points.
MdeValues == {50, 150, 1000}

\* "Significance level" and "Statistical power": the sliders' options, in
\* percent.
AlphaOptions == {1, 5, 10}

PowerOptions == {70, 80, 90, 95}

\* "Daily traffic": an integer input with no minimum.
DailyTrafficValues == {0, 1000}

\* Lines 327-375: the widgets, the effect size, the required sample size, the
\* test duration, and the sweep's empty list.  int(np.ceil(required_n * 2 /
\* daily_traffic)) raises for a daily traffic of 0, which ends the run.
CalcStart ==
    /\ calc.pc = "idle"
    /\ \E b \in BaselineValues, m \in MdeValues, a \in AlphaOptions,
          w \in PowerOptions, dt \in DailyTrafficValues :
          LET n == RequiredN(b, m, a, w)
          IN calc' = [pc            |-> IF dt = 0 \/ n.nan THEN "failed"
                                        ELSE "sweep",
                      baseline_rate |-> b,
                      mde           |-> m,
                      alpha         |-> a,
                      power         |-> w,
                      daily_traffic |-> dt,
                      effect_size   |-> Abs(cohens_h(b, b + m)),
                      required_n    |-> n]
    /\ sample_sizes' = <<>>
    /\ UNCHANGED <<data, rng, pc, inp, ztest, control_samples,
                   treatment_samples, control_conv, treatment_conv, out,
                   last_calc>>

\* Faulty variant of AppendSize: the new element put in front.
PrependSize(sizes, n) == <<n>> \o sizes

\* sample_sizes.append(n)
AppendSize(sizes, n) == Append(sizes, n)

\* Faulty variant of SweepN: the slider's mde used for the loop's mde_val.
SweepNOuterMde(baseline_rate, mde, mde_val, alpha, power) ==
    RequiredN(baseline_rate, mde, alpha, power)

\* Lines 378-379: the loop body's sample size, from mde_val.
SweepN(baseline_rate, mde, mde_val, alpha, power) ==
    RequiredN(baseline_rate, mde_val, alpha, power)

\* Lines 377-380: one turn of the loop over mde_range.
SweepStep ==
    /\ calc.pc = "sweep"
    /\ Len(sample_sizes) < Len(mde_range)
    /\ LET mde_val == mde_range[Len(sample_sizes) + 1]
           n       == SweepN(calc.baseline_rate, calc.mde, mde_val,
                             calc.alpha, calc.power)
       IN sample_sizes' = AppendSize(sample_sizes, n)
    /\ UNCHANGED <<data, rng, pc, inp, ztest, control_samples,
                   treatment_samples, control_conv, treatment_conv, out,
                   calc, last_calc>>

\* Lines 382-398: the loop is over and the chart is drawn.
SweepDone ==
    /\ calc.pc = "sweep"
    /\ Len(sample_sizes) = Len(mde_range)
    /\ calc' = [calc EXCEPT !.pc = "done"]
    /\ UNCHANGED <<data, rng, pc, inp, ztest, control_samples,
                   treatment_samples, control_conv, treatment_conv, out,
                   sample_sizes, last_calc>>

\* A widget interaction starts the script again from the top.
CalcRerun ==
    /\ calc.pc \in {"done", "failed"}
    /\ last_calc' = IF calc.pc = "done"
                    THEN [calc EXCEPT !.pc = "kept"] @@ [sizes |-> sample_sizes]
                    ELSE last_calc
    /\ calc' = [pc |-> "idle"]
    /\ sample_sizes' = <<>>
    /\ UNCHANGED <<data, rng, pc, inp, ztest, control_samples,
                   treatment_samples, control_conv, treatment_conv, out>>

NextCalc ==
    \/ CalcStart /\ UNCHANGED histVars
    \/ SweepStep /\ UNCHANGED histVars
    \/ SweepDone /\ UNCHANGED histVars
    \/ CalcRerun /\ UNCHANGED histVars

\* The calculator uses neither the data set nor the generator.
InitCalc ==
    /\ Init
    /\ data.control.n = 0
    /\ data.treatment.n = 0
    /\ rng = 0

SpecCalc == InitCalc /\ [][NextCalc]_vars

\* ------------------------------------------------------------ claims
EmptyGroup(d) == d.control.n = 0 \/ d.treatment.n = 0

\* Session s's z-test has been run in its current script run.
Tested(s) ==
    \/ inp[s].mode = "analyze"
    \/ inp[s].mode = "simulate" /\ pc[s] = "done"

\* The counts and group sizes session s's z-test is run on, treatment first.
TestCount(s) ==
    IF inp[s].mode = "analyze"
    THEN <<data.treatment.successes, data.control.successes>>
    ELSE <<SumSeq(treatment_conv[s]), SumSeq(control_conv[s])>>

TestNobs(s) ==
    IF inp[s].mode = "analyze"
    THEN <<data.treatment.n, data.control.n>>
    ELSE <<inp[s].n_users, inp[s].n_users>>

NonEmpty(nobs) == nobs[1] > 0 /\ nobs[2] > 0

ZeroPooledVariance(count, nobs) ==
    \/ count[1] + count[2] = 0
    \/ count[1] + count[2] = nobs[1] + nobs[2]

\* The run of session s has ended in the typed failure.
Raised(s, error) == pc[s] = error /\ ~ztest[s].ran /\ out[s] = NoOut

\* C1: whenever a group of the analyzed data set is empty, the run ends in a
\* DegenerateInputError and produces neither a z-test result nor a Bayesian
\* estimate (no number, no NaN).
C1_EmptyGroupRaises ==
    \A s \in Sessions :
        (inp[s].mode = "analyze" /\ EmptyGroup(data))
            => Raised(s, "DegenerateInputError")

\* C2: whenever the z-test is run on two non-empty groups whose pooled
\* variance is zero, in the analyze or in the simulate workflow, the run ends
\* in a DegenerateInputError and produces no z statistic and no p-value.
C2_ZeroVarianceRaises ==
    \A s \in Sessions :
        (/\ Tested(s)
         /\ NonEmpty(TestNobs(s))
         /\ ZeroPooledVariance(TestCount(s), TestNobs(s)))
            => Raised(s, "DegenerateInputError")

\* What a run of the analyze workflow draws when no other run comes in
\* between.
AloneAnalyze(d) ==
    LET c == PosteriorDraw(Reseed(0), d.control, NSim)
        t == PosteriorDraw(c.state, d.treatment, NSim)
    IN [control |-> c.vals, treatment |-> t.vals]

\* What a run of the simulate workflow draws when no other run comes in
\* between.
AloneSimulate(i) ==
    LET c == RandomBinomial(Reseed(0), i.control_rate, i.n_users)
        t == RandomBinomial(c.state, i.treatment_rate, i.n_users)
    IN [control |-> c.vals, treatment |-> t.vals]

\* C3: for every interleaving of two sessions' runs, the samples and the
\* results of each completed run are those the run gets when it runs alone.
C3_NoInterference ==
    \A s \in Sessions :
        pc[s] = "done" =>
            IF inp[s].mode = "analyze"
            THEN LET alone == AloneAnalyze(data)
                 IN /\ control_samples[s] = alone.control
                    /\ treatment_samples[s] = alone.treatment
                    /\ out[s] = AnalyzeResult(data, ztest[s], alone.control,
                                              alone.treatment,
                                              inp[s].monthly_users)
            ELSE LET alone == AloneSimulate(inp[s])
                 IN /\ control_conv[s] = alone.control
                    /\ treatment_conv[s] = alone.treatment

\* C4: every completed analyze run of the session yields the Bayesian
\* estimate (probability, expected lift, credible interval, lift samples) of
\* the session's first completed analyze run, whatever ran before it and
\* whatever state the generator was in.
C4_Reproducible ==
    out[1].kind = "analyze" =>
        BayesianPart(out[1]) = first_estimate.estimate

\* A completed analyze run that found the generator in another state than the
\* first one did.
C4_Witness ==
    /\ out[1].kind = "analyze"
    /\ first_estimate.rng_before # run_rng

\* C5: the calculator accepts only a positive MDE and an alpha and a power
\* inside (0, 1), and the required sample size and every element of the sweep
\* are finite and >= 0.
C5_FiniteSampleSize ==
    calc.pc # "idle" =>
        /\ calc.mde > 0
        /\ calc.alpha \in 1..99
        /\ calc.power \in 1..99
        /\ ~calc.required_n.nan
        /\ calc.required_n.v >= 0
        /\ \A i \in 1..Len(sample_sizes) :
              ~sample_sizes[i].nan /\ sample_sizes[i].v >= 0

\* A completed sweep for the smallest MDE the slider offers.
C5_Witness ==
    /\ calc.pc = "done"
    /\ calc.mde = 50
    /\ Len(sample_sizes) = Len(mde_range)

\* C6: the business impact fails with an InvalidInputError and returns no
\* impact when monthly_users < 0; otherwise monthly_impact is the revenue lift
\* times monthly_users and annual_impact is twelve times that.
C6_NegativeUsersRejected ==
    \A s \in Sessions :
        (inp[s].mode = "analyze" /\ pc[s] = "done") =>
            IF inp[s].monthly_users < 0
            THEN out[s] = NoOut
            ELSE /\ out[s].monthly_impact
                      = FMulInt(FSub(data.treatment.revenue,
                                     data.control.revenue),
                                inp[s].monthly_users)
                 /\ out[s].annual_impact = FMulInt(out[s].monthly_impact, 12)

SameSweepInputs(a, b) ==
    /\ a.baseline_rate = b.baseline_rate
    /\ a.alpha = b.alpha
    /\ a.power = b.power

\* C7: the sweep's list holds, in the order of mde_range, the required sample
\* size of each MDE value for the run's baseline rate, alpha and power, one
\* element per value once the loop is over, and a later run with the same
\* inputs produces the same list.
C7_SweepInOrder ==
    /\ Len(sample_sizes) <= Len(mde_range)
    /\ \A i \in 1..Len(sample_sizes) :
          sample_sizes[i] = RequiredN(calc.baseline_rate, mde_range[i],
                                      calc.alpha, calc.power)
    /\ calc.pc = "done" => Len(sample_sizes) = Len(mde_range)
    /\ (calc.pc = "done" /\ last_calc.pc = "kept"
            /\ SameSweepInputs(calc, last_calc))
          => sample_sizes = last_calc.sizes

\* A completed sweep after an earlier one with the same inputs.
C7_Witness ==
    /\ calc.pc = "done"
    /\ last_calc.pc = "kept"
    /\ SameSweepInputs(calc, last_calc)

\* C8: for the same baseline rate, alpha and power, a larger MDE needs a
\* strictly smaller sample: along the sweep, between the sweep and the
\* slider's MDE, and between two runs.
C8_DecreasingInMde ==
    /\ \A i, j \in 1..Len(sample_sizes) :
          i < j => sample_sizes[i].v > sample_sizes[j].v
    /\ calc.pc # "idle" =>
          \A i \in 1..Len(sample_sizes) :
              /\ mde_range[i] < calc.mde
                    => sample_sizes[i].v > calc.required_n.v
              /\ mde_range[i] > calc.mde
                    => sample_sizes[i].v < calc.required_n.v
    /\ (calc.pc # "idle" /\ last_calc.pc = "kept"
            /\ SameSweepInputs(calc, last_calc)
            /\ last_calc.mde < calc.mde)
          => last_calc.required_n.v > calc.required_n.v

\* A completed sweep of a run whose MDE is larger than the previous run's,
\* the other inputs being the same.
C8_Witness ==
    /\ calc.pc = "done"
    /\ last_calc.pc = "kept"
    /\ SameSweepInputs(calc, last_calc)
    /\ last_calc.mde < calc.mde

\* C9: on non-empty groups with a non-zero pooled variance the z statistic is
\* a number with the sign of rate_t - rate_c, and two identical groups give
\* z = 0 and p = 0.5, which is not significant.
C9_TreatmentMinusControl ==
    \A s \in Sessions :
        (/\ Tested(s)
         /\ NonEmpty(TestNobs(s))
         /\ ~ZeroPooledVariance(TestCount(s), TestNobs(s)))
            => LET count == TestCount(s)
                   nobs  == TestNobs(s)
               IN /\ ztest[s].ran
                  /\ ~ztest[s].z_stat.nan
                  /\ Sign(ztest[s].z_stat.v)
                        = Sign(count[1] * nobs[2] - count[2] * nobs[1])
                  /\ (count[1] = count[2] /\ nobs[1] = nobs[2])
                        => /\ ztest[s].z_stat.v = 0
                           /\ ztest[s].p_value = Num(500000)
                           /\ ~Significant(ztest[s].p_value)

\* An analyze run on a data set whose treatment rate is above its control
\* rate.
C9_Witness ==
    /\ inp[1].mode = "analyze"
    /\ NonEmpty(TestNobs(1))
    /\ data.treatment.successes * data.control.n
          > data.control.successes * data.treatment.n
    /\ ztest[1].z_stat.v > 0

\* C10: an analyze run shows no recommendation before its end and exactly one
\* at its end: launch when p_value < 0.05 and prob_treatment_better > 0.95,
\* and continue otherwise, a NaN p-value included.
C10_Recommendation ==
    \A s \in Sessions :
        /\ pc[s] # "done" => out[s] = NoOut
        /\ (pc[s] = "done" /\ inp[s].mode = "analyze") =>
              /\ out[s].recommendation \in {"launch", "continue"}
              /\ out[s].recommendation = "launch"
                    <=> /\ ~ztest[s].p_value.nan
                        /\ ztest[s].p_value.v < 50000
                        /\ out[s].prob_treatment_better * 100 > 95 * NSim

\* A run that recommends the launch.
C10_Witness ==
    /\ pc[1] = "done"
    /\ inp[1].mode = "analyze"
    /\ out[1].recommendation = "launch"

====
